---- MODULE Spec2Model ----
(***************************************************************************)
(* Simple Banking System (banking.py, database.py).                        *)
(*                                                                         *)
(* A string is a sequence of character codes ('0' is 48, '9' is 57), so    *)
(* that str() and int() are conversions and not the identity.  The card    *)
(* table is a set of rows; the program position pc says which input() the  *)
(* process is waiting at, or how the process ended.                        *)
(***************************************************************************)
EXTENDS Integers, Sequences, FiniteSets, TLC

VARIABLES
    store,      \* rows of table card: [id, number, pin, balance]
    next_id,    \* the AUTOINCREMENT counter of card.id
    pc,         \* "main", "account", "amount", "credit", "exited", "aborted", "killed"
    acct,       \* the Account object of the session (login's local account)
    receiver,   \* Account.menu's local receiver (last card number entered)
    amount,     \* transfer_money's local amount (0 while not in scope)
    action,     \* the last choice typed at a menu prompt (the menus' local action)
    out         \* the last line the process printed (or the exception that ended it)

vars == <<store, next_id, pc, acct, receiver, amount, action, out>>

----------------------------------------------------------------------------
(* Bounds of the model *)

\* account creations per database file (caps card.id)
MaxCreates == 2
\* stored and cached balances stay within -MaxDebt .. MaxBalance
MaxBalance == 2
MaxDebt == 1
\* number of adjacent identifier digits that range over 0..9 in SpecGen
FreeLen == 2
\* number of identifier digits that range over 0..9 in SpecValid
ValidFreeLen == 1

\* the digits random.randint(0, 9) draws for the 9-digit identifier
IdChoices ==
    { <<0, 0, 0, 0, 0, 0, 0, 0, 0>>, <<8, 4, 4, 9, 4, 3, 3, 4, 0>> }
\* the digits random.randint(0, 9) draws for the PIN
PinChoices == { <<0, 0, 0, 0>>, <<1, 2, 3, 4>> }
\* integers typed at the income and amount prompts
IntInputs == (-MaxDebt)..MaxBalance

----------------------------------------------------------------------------
(* Strings and conversions *)

\* str(d) for a one-digit integer: the character of the digit
Chr(d) == 48 + d

IsDigitChar(c) == c \in 48..57

\* int(c) for a one-character string holding a decimal digit
IntOfChar(c) == c - 48

RECURSIVE StrNat(_)
\* str(n) for n >= 0
StrNat(n) == IF n < 10 THEN <<Chr(n)>> ELSE StrNat(n \div 10) \o <<Chr(n % 10)>>

\* str(n): '-' is 45
Str(n) == IF n < 0 THEN <<45>> \o StrNat(-n) ELSE StrNat(n)

RECURSIVE IntOfDigits(_, _)
IntOfDigits(s, acc) ==
    IF s = <<>> THEN acc ELSE IntOfDigits(Tail(s), acc * 10 + IntOfChar(Head(s)))

\* int(s) for a non-empty string of decimal digits
IntOfStr(s) == IntOfDigits(s, 0)

\* ''.join([str(d) for d in digits])
Join(digits) == [i \in 1..Len(digits) |-> Chr(digits[i])]

RECURSIVE SumInts(_)
\* sum(map(int, strings)) over a list of digit strings
SumInts(strings) ==
    IF strings = <<>> THEN 0 ELSE IntOfStr(Head(strings)) + SumInts(Tail(strings))

\* a bug of Ceil: int(a / b) + 1, one too many on exact multiples
CeilPlusOne(a, b) == a \div b + 1

\* math.ceil(a / b) for a >= 0, b > 0
Ceil(a, b) == IF a % b = 0 THEN a \div b ELSE a \div b + 1

----------------------------------------------------------------------------
(* Account numbers and PINs (banking.py) *)

\* Account.__issuer_num = '400000'
issuer_num == Join(<<4, 0, 0, 0, 0, 0>>)

\* a bug of new_num: enumerate(num) counting from 0, the even positions doubled
new_num_from0(num) ==
    [i \in 1..Len(num) |->
        IF (i - 1) % 2 = 1
        THEN LET new_digit == IntOfChar(num[i]) * 2
             IN  Str(IF new_digit > 9 THEN new_digit - 9 ELSE new_digit)
        ELSE <<num[i]>>]

\* _get_account_num: the list new_num of transformed digits, as strings
new_num(num) ==
    [i \in 1..Len(num) |->
        IF i % 2 = 1
        THEN LET new_digit == IntOfChar(num[i]) * 2
             IN  Str(IF new_digit > 9 THEN new_digit - 9 ELSE new_digit)
        ELSE <<num[i]>>]

\* _get_account_num: the checksum of the 15-character base number
checksum(num) ==
    LET sum_new_num == SumInts(new_num(num))
    IN  Ceil(sum_new_num, 10) * 10 - sum_new_num

\* _get_account_num, given the 9 digits random.randint draws
get_account_num(digits) ==
    LET account_id == Join(digits)
        num == issuer_num \o account_id
    IN  num \o Str(checksum(num))

\* _get_pin, given the 4 digits random.randint draws
get_pin(digits) == Join(digits)

\* number[:-1]
AllButLast(number) == SubSeq(number, 1, Len(number) - 1)

\* a bug of new_number: the doubled digit is not reduced by 9
new_number_no9(number) ==
    LET body == AllButLast(number)
    IN  [i \in 1..Len(body) |->
            IF i % 2 = 1
            THEN Str(IntOfChar(body[i]) * 2)
            ELSE <<body[i]>>]

\* is_card_number_valid: the list new_number of transformed digits
new_number(number) ==
    LET body == AllButLast(number)
    IN  [i \in 1..Len(body) |->
            IF i % 2 = 1
            THEN LET new_digit == IntOfChar(body[i]) * 2
                 IN  Str(IF new_digit > 9 THEN new_digit - 9 ELSE new_digit)
            ELSE <<body[i]>>]

\* the exception is_card_number_valid raises on number, or "none":
\* int() of a non-digit character is a ValueError, number[-1] of '' an IndexError
is_card_number_valid_raises(number) ==
    IF \E i \in 1..Len(number) : ~IsDigitChar(number[i]) THEN "ValueError"
    ELSE IF number = <<>> THEN "IndexError"
    ELSE "none"

\* is_card_number_valid, where it returns
is_card_number_valid(number) ==
    LET sum_new_number == SumInts(new_number(number))
        total == sum_new_number + IntOfChar(number[Len(number)])
    IN  total % 10 = 0

----------------------------------------------------------------------------
(* The card table (database.py) *)

\* a bug of add_card_raises: column number is declared without UNIQUE
add_card_raises_never(rows, number) == "none"

\* the exception add_card raises (number TEXT NOT NULL UNIQUE), or "none"
add_card_raises(rows, number) ==
    IF \E r \in rows : r.number = number THEN "IntegrityError" ELSE "none"

\* INSERT INTO card (number, pin) VALUES (?, ?): balance DEFAULT 0
add_card(rows, id, number, pin) ==
    rows \cup { [id |-> id, number |-> number, pin |-> pin, balance |-> 0] }

RECURSIVE RowsById(_)
\* the rows in the order of their id, as (number, pin, balance)
RowsById(rows) ==
    IF rows = {} THEN <<>>
    ELSE LET first == CHOOSE r \in rows : \A q \in rows : r.id <= q.id
         IN  <<[number |-> first.number, pin |-> first.pin,
                balance |-> first.balance]>> \o RowsById(rows \ {first})

\* SELECT number, pin, balance FROM card WHERE number = ?  (fetchall)
get_card_by_number(rows, number) ==
    RowsById({ r \in rows : r.number = number })

\* a bug of add_income: the UPDATE has no WHERE clause
add_income_all(rows, number, income) ==
    { [r EXCEPT !.balance = @ + income] : r \in rows }

\* a bug of add_income: a number that is absent gets a row (an upsert)
add_income_upsert(rows, number, income) ==
    IF \E r \in rows : r.number = number
    THEN { IF r.number = number THEN [r EXCEPT !.balance = @ + income] ELSE r :
            r \in rows }
    ELSE rows \cup { [id |-> 0, number |-> number, pin |-> <<>>,
                      balance |-> income] }

\* UPDATE card SET balance = balance + ? WHERE number = ?
add_income(rows, number, income) ==
    { IF r.number = number THEN [r EXCEPT !.balance = @ + income] ELSE r :
        r \in rows }

\* a bug of delete_card: the DELETE matches the pin column, and so no row
delete_card_by_pin(rows, number) == { r \in rows : r.pin # number }

\* DELETE FROM card WHERE number = ?
delete_card(rows, number) == { r \in rows : r.number # number }

\* do_card_number_exists (banking.py)
do_card_number_exists(rows, number) == get_card_by_number(rows, number) # <<>>

----------------------------------------------------------------------------
(* The process *)

\* no Account object: no session
NoAccount == [number |-> <<>>, pin |-> <<>>, balance |-> 0]

\* Account(number, pin, balance, connection)
Account(number, pin, balance) ==
    [number |-> number, pin |-> pin, balance |-> balance]

MsgCreated == "Your card has been created"
MsgWrong == "Wrong card number or PIN!"
MsgLoggedIn == "You have successfully logged in!"
MsgLoggedOut == "You have successfully logged out!"
MsgBalance == "Balance: {self.balance}"
MsgIncome == "Income was added!"
MsgSame == "You can't transfer money to the same account!"
MsgMistake == "Probably you made a mistake in the card number. Please try again!"
MsgNoCard == "Such a card does not exist."
MsgEnterAmount == "Enter how much money you want to transfer:"
MsgNotEnough == "Not enough money!"
MsgSuccess == "Success!"
MsgBye == "Bye!"

\* banking_system = BankingSystem(DB_FILEPATH) on a new database file
Init ==
    /\ store = {}
    /\ next_id = 1
    /\ pc = "main"
    /\ acct = NoAccount
    /\ receiver = <<>>
    /\ amount = 0
    /\ action = ""
    /\ out = ""

\* the process ends with an uncaught exception
Abort(exception) ==
    /\ pc' = "aborted"
    /\ out' = exception

\* BankingSystem.create_account (main menu, action '1')
CreateAccount(id_digits, pin_digits) ==
    /\ pc = "main"
    /\ action' = "1"
    /\ LET number == get_account_num(id_digits)
           pin == get_pin(pin_digits)
       IN  IF add_card_raises(store, number) # "none"
           THEN /\ Abort(add_card_raises(store, number))
                /\ UNCHANGED <<store, next_id>>
           ELSE /\ store' = add_card(store, next_id, number, pin)
                /\ next_id' = next_id + 1
                /\ pc' = "main"
                /\ out' = MsgCreated
    /\ UNCHANGED <<acct, receiver, amount>>

\* a bug of Login: the pin entered is not compared
LoginNoPinCheck(card_num_inp, pin_inp) ==
    /\ pc = "main"
    /\ action' = "2"
    /\ LET row == get_card_by_number(store, card_num_inp)
       IN  IF row = <<>>
           THEN /\ out' = MsgWrong
                /\ UNCHANGED <<pc, acct>>
           ELSE /\ out' = MsgLoggedIn
                /\ acct' = Account(row[1].number, row[1].pin, row[1].balance)
                /\ pc' = "account"
    /\ UNCHANGED <<store, next_id, receiver, amount>>

\* a bug of Login: a wrong pin gets a message of its own
LoginRevealsPin(card_num_inp, pin_inp) ==
    /\ pc = "main"
    /\ action' = "2"
    /\ LET row == get_card_by_number(store, card_num_inp)
       IN  IF row = <<>>
           THEN /\ out' = MsgWrong
                /\ UNCHANGED <<pc, acct>>
           ELSE IF pin_inp # row[1].pin
           THEN /\ out' = "Wrong PIN!"
                /\ UNCHANGED <<pc, acct>>
           ELSE /\ out' = MsgLoggedIn
                /\ acct' = Account(row[1].number, row[1].pin, row[1].balance)
                /\ pc' = "account"
    /\ UNCHANGED <<store, next_id, receiver, amount>>

\* BankingSystem.login (main menu, action '2')
Login(card_num_inp, pin_inp) ==
    /\ pc = "main"
    /\ action' = "2"
    /\ LET row == get_card_by_number(store, card_num_inp)
       IN  IF row = <<>>
           THEN /\ out' = MsgWrong
                /\ UNCHANGED <<pc, acct>>
           ELSE IF pin_inp # row[1].pin
           THEN /\ out' = MsgWrong
                /\ UNCHANGED <<pc, acct>>
           ELSE /\ out' = MsgLoggedIn
                /\ acct' = Account(row[1].number, row[1].pin, row[1].balance)
                /\ pc' = "account"
    /\ UNCHANGED <<store, next_id, receiver, amount>>

\* BankingSystem.menu and Account.menu, action '0'
Exit ==
    /\ pc \in {"main", "account"}
    /\ action' = "0"
    /\ pc' = "exited"
    /\ out' = MsgBye
    /\ UNCHANGED <<store, next_id, acct, receiver, amount>>

\* BankingSystem.menu and Account.menu, any other action
InvalidAction ==
    /\ pc \in {"main", "account"}
    /\ action' = "9"
    /\ Abort("NotImplementedError")
    /\ UNCHANGED <<store, next_id, acct, receiver, amount>>

\* Account.menu, action '1'
ShowBalance ==
    /\ pc = "account"
    /\ action' = "1"
    /\ out' = MsgBalance
    /\ UNCHANGED <<store, next_id, pc, acct, receiver, amount>>

\* Account.menu, action '2', and Account.add_income
AddIncome(income) ==
    /\ pc = "account"
    /\ action' = "2"
    /\ store' = add_income(store, acct.number, income)
    /\ acct' = [acct EXCEPT !.balance = @ + income]
    /\ out' = MsgIncome
    /\ UNCHANGED <<next_id, pc, receiver, amount>>

\* int(input()) at the income or amount prompt, the text no integer
NotAnInteger ==
    /\ pc \in {"account", "amount"}
    /\ action' = IF pc = "account" THEN "2" ELSE action
    /\ Abort("ValueError")
    /\ UNCHANGED <<store, next_id, acct, receiver, amount>>

\* a bug of TransferMoney: the existence check comes before the checksum check
TransferMoneyExistsFirst(r) ==
    /\ pc = "account"
    /\ action' = "3"
    /\ receiver' = r
    /\ IF r = acct.number
       THEN /\ out' = MsgSame
            /\ pc' = "account"
       ELSE IF ~do_card_number_exists(store, r)
       THEN /\ out' = MsgNoCard
            /\ pc' = "account"
       ELSE IF is_card_number_valid_raises(r) # "none"
       THEN Abort(is_card_number_valid_raises(r))
       ELSE IF ~is_card_number_valid(r)
       THEN /\ out' = MsgMistake
            /\ pc' = "account"
       ELSE /\ out' = MsgEnterAmount
            /\ pc' = "amount"
    /\ UNCHANGED <<store, next_id, acct, amount>>

\* Account.menu, action '3', and Account.transfer_money up to the amount prompt
TransferMoney(r) ==
    /\ pc = "account"
    /\ action' = "3"
    /\ receiver' = r
    /\ IF r = acct.number
       THEN /\ out' = MsgSame
            /\ pc' = "account"
       ELSE IF is_card_number_valid_raises(r) # "none"
       THEN Abort(is_card_number_valid_raises(r))
       ELSE IF ~is_card_number_valid(r)
       THEN /\ out' = MsgMistake
            /\ pc' = "account"
       ELSE IF ~do_card_number_exists(store, r)
       THEN /\ out' = MsgNoCard
            /\ pc' = "account"
       ELSE /\ out' = MsgEnterAmount
            /\ pc' = "amount"
    /\ UNCHANGED <<store, next_id, acct, amount>>

\* a bug of EnterAmount: the sender is debited before the funds are checked
EnterAmountDebitFirst(a) ==
    /\ pc = "amount"
    /\ action' = action
    /\ store' = add_income(store, acct.number, -a)
    /\ IF a <= acct.balance
       THEN /\ amount' = a
            /\ acct' = [acct EXCEPT !.balance = @ - a]
            /\ pc' = "credit"
            /\ out' = out
       ELSE /\ out' = MsgNotEnough
            /\ pc' = "account"
            /\ UNCHANGED <<acct, amount>>
    /\ UNCHANGED <<next_id, receiver>>

\* Account.transfer_money from the amount entered to the debit of the sender
EnterAmount(a) ==
    /\ pc = "amount"
    /\ action' = action
    /\ IF a <= acct.balance
       THEN /\ amount' = a
            /\ store' = add_income(store, acct.number, -a)
            /\ acct' = [acct EXCEPT !.balance = @ - a]
            /\ pc' = "credit"
            /\ out' = out
       ELSE /\ out' = MsgNotEnough
            /\ pc' = "account"
            /\ UNCHANGED <<store, acct, amount>>
    /\ UNCHANGED <<next_id, receiver>>

\* Account.transfer_money, the credit of the receiver
Credit ==
    /\ pc = "credit"
    /\ action' = action
    /\ store' = add_income(store, receiver, amount)
    /\ out' = MsgSuccess
    /\ pc' = "account"
    /\ amount' = 0
    /\ UNCHANGED <<next_id, acct, receiver>>

\* the process is stopped between the debit's commit and the credit
Interrupt ==
    /\ pc = "credit"
    /\ action' = action
    /\ pc' = "killed"
    /\ UNCHANGED <<store, next_id, acct, receiver, amount, out>>

\* Account.menu, action '4', and Account.delete_account
DeleteAccount ==
    /\ pc = "account"
    /\ action' = "4"
    /\ store' = delete_card(store, acct.number)
    /\ UNCHANGED <<next_id, pc, acct, receiver, amount, out>>

\* Account.menu, action '5'
Logout ==
    /\ pc = "account"
    /\ action' = "5"
    /\ out' = MsgLoggedOut
    /\ pc' = "main"
    /\ acct' = NoAccount
    /\ receiver' = <<>>
    /\ UNCHANGED <<store, next_id, amount>>

\* the program is started again on the same database file
Restart ==
    /\ pc \in {"exited", "aborted", "killed"}
    /\ action' = ""
    /\ pc' = "main"
    /\ acct' = NoAccount
    /\ receiver' = <<>>
    /\ amount' = 0
    /\ out' = ""
    /\ UNCHANGED <<store, next_id>>

----------------------------------------------------------------------------
(* Inputs and specifications *)

\* the card numbers account creation can issue in Spec
Issued == { get_account_num(d) : d \in IdChoices }

\* a 16-digit number with a wrong last digit, a 16-digit number that passes the
\* checksum and is never issued, the empty string, a string with a letter
BadChecksum == issuer_num \o Join(<<0, 0, 0, 0, 0, 0, 0, 0, 0, 1>>)
NeverIssued == Join(<<5, 0, 0, 0, 0, 0, 0, 0, 0, 0, 0, 0, 0, 0, 0, 9>>)
NotDigits == <<120>>

\* card numbers typed at the login prompt and at the transfer prompt
CardInputs == Issued \cup {BadChecksum, NeverIssued, <<>>, NotDigits}

\* PINs typed at the login prompt
PinInputs == { get_pin(d) : d \in PinChoices } \cup { Join(<<9, 9, 9, 9>>) }

InRange(b) == -MaxDebt <= b /\ b <= MaxBalance

\* the balances of the next state are within the model's bounds
Bounded ==
    /\ InRange(acct'.balance)
    /\ \A r \in store' : InRange(r.balance)

\* crediting a to the receiver keeps its balance within the model's bounds
CreditBounded(a) ==
    \A r \in store : r.number = receiver => InRange(r.balance + a)

\* one step of the process, the incomes typed drawn from incomes
Step(incomes) ==
    \/ \E d \in IdChoices, p \in PinChoices :
        next_id <= MaxCreates /\ CreateAccount(d, p)
    \/ \E n \in CardInputs, p \in PinInputs : Login(n, p)
    \/ Exit
    \/ InvalidAction
    \/ ShowBalance
    \/ \E i \in incomes : AddIncome(i) /\ Bounded
    \/ NotAnInteger
    \/ \E r \in CardInputs : TransferMoney(r)
    \/ \E a \in IntInputs : EnterAmount(a) /\ Bounded /\ CreditBounded(a)
    \/ Credit
    \/ Interrupt
    \/ DeleteAccount
    \/ Logout
    \/ Restart

Next == Step(IntInputs)

Spec == Init /\ [][Next]_vars

\* the incomes typed are non-negative, as the deposit operation requires
NextDeposit == Step(0..MaxBalance)

SpecDeposit == Init /\ [][NextDeposit]_vars

\* 9-digit identifiers: k adjacent digits range over 0..9, the others are those
\* of an identifier of IdChoices
WideIds(k) ==
    { [i \in 1..9 |-> IF i \in p..(p + k - 1) THEN f[i - p + 1] ELSE base[i]] :
        p \in 1..(10 - k), f \in [1..k -> 0..9], base \in IdChoices }

\* account creation on an empty table, over the identifiers of WideIds
NextGen ==
    \E d \in WideIds(FreeLen), p \in PinChoices :
        next_id = 1 /\ CreateAccount(d, p)

SpecGen == Init /\ [][NextGen]_vars

\* 16-digit strings: issuer, an identifier of WideIds, any last digit
WideNumbers(k) ==
    { issuer_num \o Join(d) \o <<Chr(c)>> : d \in WideIds(k), c \in 0..9 }

\* one account, its session, and the session's first transfer, to a number of
\* WideNumbers
NextValid ==
    \/ \E d \in IdChoices : next_id = 1 /\ CreateAccount(d, <<0, 0, 0, 0>>)
    \/ \E n \in Issued, p \in PinInputs : Login(n, p)
    \/ \E r \in WideNumbers(ValidFreeLen) : receiver = <<>> /\ TransferMoney(r)

SpecValid == Init /\ [][NextValid]_vars

----------------------------------------------------------------------------
(* Vocabulary of the properties *)

\* the process is at a menu: no operation is under way
AtMenu == pc \in {"main", "account"}

\* a session is open
InSession == pc \in {"account", "amount", "credit"}

\* the stored balances of the rows with this number
Balances(rows, number) == { r.balance : r \in { q \in rows : q.number = number } }

\* the receiver passes the checksum validation (which returns)
PassesChecksum(r) ==
    is_card_number_valid_raises(r) = "none" /\ is_card_number_valid(r)

\* the receiver fails the checksum validation (which returns)
FailsChecksum(r) ==
    is_card_number_valid_raises(r) = "none" /\ ~is_card_number_valid(r)

Present(rows, number) == \E r \in rows : r.number = number

\* the account of the open session has been closed
SessionClosed == InSession /\ ~Present(store, acct.number)

----------------------------------------------------------------------------
(* C1 -- at every menu, every stored row has balance >= 0, when the incomes
   deposited are non-negative and the amounts transferred are any integers *)
C1_BalanceNonNegative == AtMenu => \A r \in store : r.balance >= 0

(* C2 -- a transfer that passes the four guards debits the sender's stored
   balance and the session's cached balance by the amount, and credits the
   receiver's stored balance by the amount *)
C2_TransferAppliesBoth ==
    [][ /\ \A a \in IntInputs :
            (EnterAmount(a) /\ a <= acct.balance) =>
                /\ Present(store, acct.number)
                /\ Balances(store', acct.number)
                     = { b - a : b \in Balances(store, acct.number) }
                /\ acct'.balance = acct.balance - a
        /\ Credit =>
                /\ Present(store, receiver)
                /\ Balances(store', receiver)
                     = { b + amount : b \in Balances(store, receiver) }
                /\ acct' = acct
      ]_vars

(* C3 -- a rejected transfer (same account, failed checksum, absent receiver,
   amount above the cached balance) changes no stored row and not the
   session's cached balance *)
C3_RejectedTransferChangesNothing ==
    [][ /\ \A r \in CardInputs :
            ( /\ TransferMoney(r)
              /\ \/ r = acct.number
                 \/ FailsChecksum(r)
                 \/ PassesChecksum(r) /\ ~Present(store, r) )
            => (store' = store /\ acct' = acct /\ pc' = "account")
        /\ \A a \in IntInputs :
            (EnterAmount(a) /\ a > acct.balance)
            => (store' = store /\ acct' = acct /\ pc' = "account")
      ]_vars

C3_Witness ==
    /\ pc = "account"
    /\ out = MsgNotEnough
    /\ Present(store, receiver)
    /\ Present(store, acct.number)

(* C4 -- the guards of a transfer are tried in the order same account,
   checksum, existence, funds; the rejection printed is that of the first
   guard that fails, and the amount is asked for only when the first three
   pass *)
C4_GuardOrder ==
    [][ /\ \A r \in CardInputs :
            TransferMoney(r) =>
                /\ (r = acct.number) => (out' = MsgSame /\ pc' = "account")
                /\ (r # acct.number /\ FailsChecksum(r))
                     => (out' = MsgMistake /\ pc' = "account")
                /\ (r # acct.number /\ PassesChecksum(r) /\ ~Present(store, r))
                     => (out' = MsgNoCard /\ pc' = "account")
                /\ (pc' = "amount") <=>
                     (r # acct.number /\ PassesChecksum(r) /\ Present(store, r))
                /\ (pc' = "amount") <=> (out' = MsgEnterAmount)
                /\ amount' = amount
        /\ \A a \in IntInputs :
            EnterAmount(a) => ((out' = MsgNotEnough) <=> (a > acct.balance))
        /\ (out' = MsgNotEnough /\ out # MsgNotEnough) => pc = "amount"
      ]_vars

C4_Witness ==
    /\ pc = "account"
    /\ out = MsgNoCard
    /\ receiver # acct.number
    /\ PassesChecksum(receiver)
    /\ ~Present(store, receiver)

(* C5 -- once its account is closed a session runs no further balance,
   deposit or transfer operation *)
C5_ClosedSessionTerminates ==
    [][ SessionClosed =>
            ~ \/ ShowBalance
              \/ \E i \in IntInputs : AddIncome(i)
              \/ \E r \in CardInputs : TransferMoney(r)
              \/ \E a \in IntInputs : EnterAmount(a)
              \/ Credit
      ]_vars

(* C6 -- login opens a session iff a row has the number entered and that
   row's pin is the pin entered; it never changes the store, and the session
   opened has that row's number and, as cached balance, its stored balance *)
C6_LoginIff ==
    [][ \A n \in CardInputs, p \in PinInputs :
            Login(n, p) =>
                /\ (pc' = "account") <=>
                     (\E r \in store : r.number = n /\ r.pin = p)
                /\ store' = store
                /\ pc' \in {"main", "account"}
                /\ pc' = "main" => acct' = NoAccount
                /\ pc' = "account" =>
                     /\ acct'.number = n
                     /\ Balances(store, n) = {acct'.balance}
      ]_vars

C6_Witness ==
    /\ pc = "account"
    /\ out = MsgLoggedIn
    /\ acct.balance > 0
    /\ Cardinality(store) > 1

(* C7 -- closing the account with number n removes its row; while no account
   creation inserts n again the number stays absent, and a login with an
   absent number fails for every pin *)
C7_ClosedAccountCannotLogin ==
    [][ /\ DeleteAccount => ~Present(store', acct.number)
        /\ \A n \in CardInputs :
            (~Present(store, n) /\ Present(store', n)) =>
                \E d \in IdChoices, p \in PinChoices :
                    CreateAccount(d, p) /\ get_account_num(d) = n
        /\ \A n \in CardInputs, p \in PinInputs :
            (Login(n, p) /\ ~Present(store, n)) =>
                (pc' = "main" /\ acct' = NoAccount /\ out' = MsgWrong)
      ]_vars

C7_Witness ==
    /\ next_id = 2
    /\ store = {}
    /\ pc = "main"
    /\ action = "2"
    /\ out = MsgWrong

(* C8 -- every number account creation stores passes is_card_number_valid *)
C8_GeneratedNumbersValid == \A r \in store : PassesChecksum(r.number)

C8_Witness == \E r \in store : r.number[Len(r.number)] = Chr(7)

(* C9 -- a generated number has 16 characters, all decimal digits, begins
   with 400000, and ends with the checksum, a single digit 0..9 that is 0
   when the digit sum is a multiple of 10 *)
C9_GeneratedNumberFormat ==
    \A r \in store :
        LET base == SubSeq(r.number, 1, 15)
            S == SumInts(new_num(base))
        IN  /\ Len(r.number) = 16
            /\ \A i \in 1..Len(r.number) : IsDigitChar(r.number[i])
            /\ SubSeq(r.number, 1, 6) = <<52, 48, 48, 48, 48, 48>>
            /\ checksum(base) \in 0..9
            /\ (S % 10 = 0) => checksum(base) = 0
            /\ r.number[16] = Chr(checksum(base))

C9_Witness ==
    \E r \in store :
        /\ SumInts(new_num(SubSeq(r.number, 1, 15))) % 10 = 0
        /\ r.number[16] = Chr(0)

(* C10 -- changing any one digit of a 16-digit number that passes
   is_card_number_valid gives a number that fails it *)
C10_SingleDigitChangeRejected ==
    (Len(receiver) = 16 /\ PassesChecksum(receiver)) =>
        \A i \in 1..16, d \in 0..9 :
            Chr(d) # receiver[i] =>
                FailsChecksum([receiver EXCEPT ![i] = Chr(d)])

C10_Witness ==
    /\ pc = "account"
    /\ out = MsgNoCard
    /\ Len(receiver) = 16
    /\ PassesChecksum(receiver)

(* C11 -- the validation of a receiver never raises: a transfer to any string
   typed, the empty string and strings with non-digit characters included,
   does not end the process, and a receiver that does not pass the checksum
   gets the invalid-format rejection *)
C11_ValidationNeverRaises ==
    [][ \A r \in CardInputs :
            TransferMoney(r) =>
                /\ pc' # "aborted"
                /\ (r # acct.number /\ ~PassesChecksum(r))
                     => (out' = MsgMistake /\ pc' = "account")
      ]_vars

\* no two rows of the table have the same number
UniqueNumbers == \A r \in store, q \in store : r.number = q.number => r = q

(* C12 -- the numbers of the table are unique in every reachable state;
   creating an account whose number is present raises the constraint
   violation, inserts no row, changes no row, and is not tried again *)
C12_UniqueNumbers ==
    /\ []UniqueNumbers
    /\ [][ \A d \in IdChoices, p \in PinChoices :
            (CreateAccount(d, p) /\ Present(store, get_account_num(d))) =>
                /\ store' = store
                /\ next_id' = next_id
                /\ pc' = "aborted"
                /\ out' = "IntegrityError"
         ]_vars

C12_Witness ==
    /\ pc = "aborted"
    /\ out = "IntegrityError"
    /\ action = "1"
    /\ Cardinality(store) = 1

(* C13 -- a deposit of a non-negative amount raises the stored balance of the
   session's account and the session's cached balance by that amount *)
C13_DepositAddsToBoth ==
    [][ \A i \in 0..MaxBalance :
            AddIncome(i) =>
                /\ Present(store, acct.number)
                /\ Balances(store', acct.number)
                     = { b + i : b \in Balances(store, acct.number) }
                /\ acct'.balance = acct.balance + i
      ]_vars

(* C14 -- add_income and delete_card on a number that is absent raise nothing
   and change no row: a deposit or a second close in a session whose account
   is closed leaves the table as it is and returns to the menu *)
C14_AbsentNumberNoOp ==
    [][ /\ (SessionClosed /\ DeleteAccount) => (store' = store /\ pc' = "account")
        /\ \A i \in IntInputs :
            (SessionClosed /\ AddIncome(i)) => (store' = store /\ pc' = "account")
        /\ \A n \in CardInputs, d \in IntInputs :
            ~Present(store', n) =>
                /\ add_income(store', n, d) = store'
                /\ delete_card(store', n) = store'
      ]_vars

C14_Witness ==
    /\ SessionClosed
    /\ pc = "account"
    /\ action = "2"
    /\ out = MsgIncome
    /\ store # {}

(* C15 -- every error after startup leaves the process at a menu: a failed
   login, each of the four transfer rejections, and the constraint violation
   of creating an account whose number is present *)
C15_ErrorsRecoverable ==
    [][ /\ \A n \in CardInputs, p \in PinInputs :
            (Login(n, p) /\ ~(\E r \in store : r.number = n /\ r.pin = p))
            => pc' = "main"
        /\ \A r \in CardInputs :
            ( /\ TransferMoney(r)
              /\ \/ r = acct.number
                 \/ FailsChecksum(r)
                 \/ PassesChecksum(r) /\ ~Present(store, r) )
            => pc' = "account"
        /\ \A a \in IntInputs :
            (EnterAmount(a) /\ a > acct.balance) => pc' = "account"
        /\ \A d \in IdChoices, p \in PinChoices :
            (CreateAccount(d, p) /\ Present(store, get_account_num(d)))
            => pc' = "main"
      ]_vars

\* the login fails because no row has the number
FailsByNumber(n) == ~Present(store, n)

\* the login fails because the row with the number has another pin
FailsByPin(n, p) == Present(store, n) /\ \A r \in store : r.number = n => r.pin # p

(* C16 -- a login that fails because the number is absent and a login that
   fails because the pin is wrong are the same step: same message, same
   resulting state *)
C16_FailedLoginsIndistinguishable ==
    [][ pc = "main" =>
          \A n1 \in CardInputs, p1 \in PinInputs, n2 \in CardInputs, p2 \in PinInputs :
            (FailsByNumber(n1) /\ FailsByPin(n2, p2)) =>
                /\ Login(n1, p1) <=> Login(n2, p2)
                /\ Login(n1, p1) =>
                     /\ out' = MsgWrong
                     /\ UNCHANGED <<store, next_id, pc, acct, receiver, amount>>
      ]_vars

C16_Witness ==
    /\ pc = "main"
    /\ action = "2"
    /\ out = MsgWrong
    /\ store # {}
    /\ \E n \in CardInputs, p \in PinInputs : FailsByPin(n, p)

(* C17 -- a transfer is two committed writes, the debit first: when the
   process stops between them the table has the sender's balance reduced by
   the amount and the receiver's balance as before, and the receiver is never
   credited before the sender is debited *)
C17_DebitThenCredit ==
    [][ /\ \A a \in IntInputs :
            (EnterAmount(a) /\ a <= acct.balance) =>
                /\ pc' = "credit"
                /\ Present(store, acct.number)
                /\ Balances(store', acct.number)
                     = { b - a : b \in Balances(store, acct.number) }
                /\ Balances(store', receiver) = Balances(store, receiver)
        /\ Interrupt => (store' = store /\ pc' = "killed")
        /\ (pc = "killed" /\ Restart) => store' = store
        /\ (pc' = "credit" /\ pc # "credit") => \E a \in IntInputs : EnterAmount(a)
        /\ Credit => pc = "credit"
      ]_vars

\* the row of the next state with the id of row r, if it is still there
Kept(r) == { q \in store' : q.id = r.id }

\* every row that stays has its balance, but for the rows with this number
OnlyBalanceOf(number) ==
    \A r \in store : \A q \in Kept(r) : r.number # number => q.balance = r.balance

(* C18 -- a row keeps its number and pin from creation to deletion; its
   balance changes only by add_income on its number: a deposit changes only
   the session's account, a transfer's debit only the sender, its credit only
   the receiver, and no other step changes a balance; a new row has balance 0 *)
C18_RowsChangeOnlyByAddIncome ==
    [][ /\ \A r \in store : \A q \in Kept(r) :
            q.number = r.number /\ q.pin = r.pin
        /\ \A q \in store' :
            (\A r \in store : r.id # q.id) => q.balance = 0
        /\ \A i \in IntInputs : AddIncome(i) => OnlyBalanceOf(acct.number)
        /\ \A a \in IntInputs : EnterAmount(a) => OnlyBalanceOf(acct.number)
        /\ Credit => OnlyBalanceOf(receiver)
        /\ ~ \/ \E i \in IntInputs : AddIncome(i)
             \/ \E a \in IntInputs : EnterAmount(a)
             \/ Credit
           => \A r \in store : \A q \in Kept(r) : q.balance = r.balance
      ]_vars

C18_Witness ==
    /\ pc = "account"
    /\ out = MsgSuccess
    /\ Cardinality(store) = 2
    /\ \E r \in store : r.balance > 0 /\ r.number # acct.number

(* C19 -- at the account menu the session's cached balance is the stored
   balance of the row with the session's number, and that row exists *)
C19_CacheEqualsStore ==
    pc = "account" => Balances(store, acct.number) = {acct.balance}

RECURSIVE Total(_)
\* the sum of the balances of the rows
Total(rows) ==
    IF rows = {} THEN 0
    ELSE LET r == CHOOSE q \in rows : TRUE IN r.balance + Total(rows \ {r})

\* the stored money, with the amount of a transfer between its two writes
Money == Total(store) + (IF pc = "credit" THEN amount ELSE 0)

(* C20 -- transfers conserve money: across every transfer attempt that
   completes, accepted or rejected, the sum of the stored balances is the
   same; the sum changes only by a deposit or the closing of an account *)
C20_TransfersConserveMoney ==
    [][ (pc' # "killed" /\ Money' # Money) =>
            \/ \E i \in IntInputs : AddIncome(i)
            \/ DeleteAccount
      ]_vars

====
